---- MODULE Spec2Model ----
(***************************************************************************)
(* A model of trollflow_sat/satpy_writer.py: the DataWriterContainer       *)
(* (supervisor) and the DataWriter thread (worker) with its run loop, the  *)
(* batch accumulator (self.data / self.messages), the work queue and the   *)
(* lock shared with the previous pipeline stage.                           *)
(***************************************************************************)
EXTENDS Integers, Sequences, FiniteSets, TLC

\* ------------------------------------------------------------------ bounds
\* Number of WorkItems the previous stage puts on the queues.
MaxPuts == 3
\* ------------------------------------------------------------- constants
\* self.thread = None
NoThread == 0

None == "None"
\* The DataWriter instances of a run: the one the constructor creates and the
\* one a restart creates.
Workers == {1, 2}
\* The queue objects; a pipeline wires the container to the first one, and
\* only a rebinding of input_queue brings in the second.
Queues == {"Q1", "Q2"}
Wired == {"Q1"}
Locks == {"L1"}
\* The DataItem the previous stage puts: an ordered product list and the
\* composites present in the scene ("B" was removed upstream).
DataItems ==
    { [products |-> <<"A", "B", "C">>, scene |-> {"A", "C"}] }

VARIABLES
    \* DataWriterContainer
    writer,         \* self.writer: the current DataWriter
    thread,         \* self.thread: the current Thread, or NoThread
    created,        \* number of DataWriter instances constructed so far
    c_input_queue,  \* self._input_queue
    c_prev_lock,    \* self._prev_lock
    use_lock,       \* self.use_lock
    topic,          \* self._topic
    supPc,          \* where the caller of the container is: idle or in a join
    raised,         \* a call on the container raised AttributeError
    \* DataWriter, one per instance
    pc,             \* position of the thread in run()
    loop,           \* self._loop
    wqueue,         \* self.queue
    wlock,          \* self.prev_lock
    data,           \* self.data
    messages,       \* self.messages
    item,           \* the local variable data of run()
    acq,            \* the lock object handed to utils.acquire_lock
    idx,            \* position of the for loop over self.messages
    \* environment
    queue,          \* contents of each queue object
    unfinished,     \* Queue.unfinished_tasks of each queue object
    locked,         \* each lock object: locked or not (threading.Lock)
    held,           \* per worker: locks it acquired that nobody released since
    prevIn,         \* locks whose critical section the previous stage is in
    nput,           \* number of items put so far
    \* history
    written,        \* deferred writes whose compute_writer_results returned
    flushSent,      \* per worker: messages sent in the current flush
    restartHeld     \* messages the writer held when restart() was called

vars == << writer, thread, created, c_input_queue, c_prev_lock, use_lock, topic,
           supPc, raised, pc, loop, wqueue, wlock, data, messages, item, acq, idx,
           queue, unfinished, locked, held, prevIn, nput, written, flushSent,
           restartHeld >>

supVars == << writer, thread, created, c_input_queue, c_prev_lock, use_lock,
              topic, supPc, raised >>
envVars == << queue, unfinished, locked, held, prevIn, nput >>
histVars == << written, flushSent, restartHeld >>

\* --------------------------------------------------------------- helpers
\* The value of the local variable data before the first pop. The field q of
\* an item records the queue object it was put on.
NoItem == [id |-> 0, eob |-> TRUE, products |-> <<>>, scene |-> {}, q |-> None]

\* utils.create_fnames: the output filenames configured for a product
create_fnames(prod) ==
    IF prod = "A" THEN <<"a1", "a2">>
    ELSE IF prod = "B" THEN <<"b1">> ELSE <<"c1">>

Range(s) == { s[i] : i \in 1..Len(s) }

Terminated == {"done", "crashed"}

\* ------------------------------------------------- DataWriter._process
\* lines 211-254: the records one product contributes, one per filename, in
\* filename order (i, j are the enumerate() indices)
FnamePairs(it, i) ==
    LET prod == it.products[i]
        fnames == create_fnames(prod)
    IN  [ j \in 1..Len(fnames) |->
            [id |-> it.id, prod |-> prod, fname |-> fnames[j], pi |-> i, fi |-> j] ]

\* StagedFrom without the test of line 200: a product removed from the scene
\* is staged like any other
RECURSIVE StagedFromAll(_, _)
StagedFromAll(it, i) ==
    IF i > Len(it.products) THEN <<>>
    ELSE FnamePairs(it, i) \o StagedFromAll(it, i + 1)

\* lines 198-201: products in list order, skipping those not in the scene
RECURSIVE StagedFrom(_, _)
StagedFrom(it, i) ==
    IF i > Len(it.products) THEN <<>>
    ELSE (IF it.products[i] \in it.scene THEN FnamePairs(it, i) ELSE <<>>)
         \o StagedFrom(it, i + 1)

StagedPairs(it) == StagedFrom(it, 1)

\* lines 212-216: the deferred write appended to self.data for a pair
DeferredWrite(p) == [id |-> p.id, prod |-> p.prod, fname |-> p.fname]

NewData(pairs) == [ k \in 1..Len(pairs) |-> DeferredWrite(pairs[k]) ]

\* NewMessages with the append of line 254 outside the loop over fnames: one
\* message per product, for its last filename
NewMessagesPerProduct(pairs) ==
    IF topic # None
    THEN SelectSeq(pairs, LAMBDA p : p.fi = Len(create_fnames(p.prod)))
    ELSE <<>>

\* NewMessages without the test of line 245: a Message for every pair
NewMessagesAlways(pairs) == pairs

\* lines 245-254: a Message is appended only when a topic is configured
NewMessages(pairs) == IF topic # None THEN pairs ELSE <<>>

\* ------------------------------------------------------ trollflow_sat.utils
\* utils.acquire_lock(lock): lock.acquire(True), blocking until it is free
acquire_lock(w, l) ==
    /\ ~locked[l]
    /\ locked' = [locked EXCEPT ![l] = TRUE]
    /\ held' = [held EXCEPT ![w] = @ \cup {l}]

\* utils.release_locks([lock]): lock.release(), whoever locked it; releasing
\* an unlocked lock raises and the error is swallowed
release_locks(l) ==
    /\ locked' = [locked EXCEPT ![l] = FALSE]
    /\ held' = [ v \in Workers |-> held[v] \ {l} ]

\* ------------------------------------------------------- DataWriter.run
\* line 129
RunBegin(w) ==
    /\ pc[w] = "start"
    /\ loop' = [loop EXCEPT ![w] = TRUE]
    /\ pc' = [pc EXCEPT ![w] = "loop"]
    /\ UNCHANGED << supVars, envVars, histVars, wqueue, wlock, data, messages,
                    item, acq, idx >>

\* LoopTarget with the loop condition of line 147 never false
LoopTargetForever(w) ==
    IF wqueue[w] = None THEN "sleep" ELSE "get"

\* lines 147-148 and 183 (the locals of run() go with the thread when the
\* loop exits)
LoopTarget(w) ==
    IF ~loop[w] THEN "done"
    ELSE IF wqueue[w] = None THEN "sleep" ELSE "get"

LoopCheck(w) ==
    /\ pc[w] = "loop"
    /\ pc' = [pc EXCEPT ![w] = LoopTarget(w)]
    /\ item' = [item EXCEPT ![w] = IF LoopTarget(w) = "done" THEN NoItem ELSE @]
    /\ acq' = [acq EXCEPT ![w] = IF LoopTarget(w) = "done" THEN None ELSE @]
    /\ UNCHANGED << supVars, envVars, histVars, loop, wqueue, wlock, data,
                    messages, idx >>

\* line 184
Sleep(w) ==
    /\ pc[w] = "sleep"
    /\ pc' = [pc EXCEPT ![w] = "loop"]
    /\ UNCHANGED << supVars, envVars, histVars, loop, wqueue, wlock, data,
                    messages, item, acq, idx >>

\* GetItem on a queue that hands out the newest item first
GetItemNewest(w) ==
    /\ pc[w] = "get"
    /\ queue[wqueue[w]] # <<>>
    /\ LET q == queue[wqueue[w]]
       IN  /\ item' = [item EXCEPT ![w] = q[Len(q)]]
           /\ queue' = [queue EXCEPT ![wqueue[w]] = SubSeq(q, 1, Len(q) - 1)]
    /\ IF wlock[w] # None
       THEN /\ acq' = [acq EXCEPT ![w] = wlock[w]]
            /\ pc' = [pc EXCEPT ![w] = "acquire"]
       ELSE /\ acq' = acq
            /\ pc' = [pc EXCEPT ![w] = "taskdone"]
    /\ UNCHANGED << supVars, histVars, unfinished, locked, held, prevIn, nput,
                    loop, wqueue, wlock, data, messages, idx >>

\* line 150, an item is there: pop it, then line 151 reads self.prev_lock
GetItem(w) ==
    /\ pc[w] = "get"
    /\ queue[wqueue[w]] # <<>>
    /\ item' = [item EXCEPT ![w] = Head(queue[wqueue[w]])]
    /\ queue' = [queue EXCEPT ![wqueue[w]] = Tail(@)]
    /\ IF wlock[w] # None
       THEN /\ acq' = [acq EXCEPT ![w] = wlock[w]]
            /\ pc' = [pc EXCEPT ![w] = "acquire"]
       ELSE /\ acq' = acq
            /\ pc' = [pc EXCEPT ![w] = "taskdone"]
    /\ UNCHANGED << supVars, histVars, unfinished, locked, held, prevIn, nput,
                    loop, wqueue, wlock, data, messages, idx >>

\* lines 150, 157-158: the 1 s timeout expires on an empty queue
GetTimeout(w) ==
    /\ pc[w] = "get"
    /\ queue[wqueue[w]] = <<>>
    /\ pc' = [pc EXCEPT ![w] = "loop"]
    /\ UNCHANGED << supVars, envVars, histVars, loop, wqueue, wlock, data,
                    messages, item, acq, idx >>

\* line 155
AcquireLock(w) ==
    /\ pc[w] = "acquire"
    /\ acquire_lock(w, acq[w])
    /\ pc' = [pc EXCEPT ![w] = "taskdone"]
    /\ UNCHANGED << supVars, histVars, queue, unfinished, prevIn, nput, loop,
                    wqueue, wlock, data, messages, item, acq, idx >>

\* Dispatch with the sends of lines 166-168 placed before line 164
DispatchSendFirst(w) ==
    IF item[w].eob
    THEN IF data[w] # <<>>
         THEN (IF messages[w] # <<>> THEN "send" ELSE "compute")
         ELSE "clear"
    ELSE "process"

\* lines 160-173: the branch taken for the popped item
Dispatch(w) ==
    IF item[w].eob
    THEN IF data[w] # <<>> THEN "compute" ELSE "clear"
    ELSE "process"

\* line 156 (task_done on self.queue raises ValueError when that queue has no
\* unfinished task), then the dispatch of lines 160-173
TaskDone(w) ==
    /\ pc[w] = "taskdone"
    /\ IF unfinished[wqueue[w]] > 0
       THEN /\ unfinished' = [unfinished EXCEPT ![wqueue[w]] = @ - 1]
            /\ pc' = [pc EXCEPT ![w] = Dispatch(w)]
       ELSE /\ pc' = [pc EXCEPT ![w] = "crashed"]
            /\ UNCHANGED unfinished
    /\ UNCHANGED << supVars, histVars, queue, locked, held, prevIn, nput, loop,
                    wqueue, wlock, data, messages, item, acq, idx >>

\* line 164: compute_writer_results(self.data) returns
ComputeOk(w) ==
    /\ pc[w] = "compute"
    /\ written' = written \cup Range(data[w])
    /\ pc' = [pc EXCEPT ![w] = IF messages[w] # <<>> THEN "send" ELSE "clear"]
    /\ UNCHANGED << supVars, envVars, flushSent, restartHeld, loop, wqueue,
                    wlock, data, messages, item, acq, idx >>

\* line 164: compute_writer_results raises; nothing in run() catches it, and
\* the thread ends with the sentinel as the last item it popped
ComputeFail(w) ==
    /\ pc[w] = "compute"
    /\ pc' = [pc EXCEPT ![w] = "crashed"]
    /\ acq' = [acq EXCEPT ![w] = None]
    /\ UNCHANGED << supVars, envVars, histVars, loop, wqueue, wlock, data,
                    messages, item, idx >>

\* lines 166-168: one pub.send of the for loop
Send(w) ==
    /\ pc[w] = "send"
    /\ flushSent' = [flushSent EXCEPT ![w] = Append(@, messages[w][idx[w]])]
    /\ IF idx[w] < Len(messages[w])
       THEN /\ idx' = [idx EXCEPT ![w] = @ + 1]
            /\ pc' = pc
       ELSE /\ idx' = [idx EXCEPT ![w] = 1]
            /\ pc' = [pc EXCEPT ![w] = "clear"]
    /\ UNCHANGED << supVars, envVars, written, restartHeld, loop, wqueue, wlock,
                    data, messages, item, acq >>

\* Clear without line 171: the messages of the batch are kept
ClearDataOnly(w) ==
    /\ pc[w] = "clear"
    /\ data' = [data EXCEPT ![w] = <<>>]
    /\ flushSent' = [flushSent EXCEPT ![w] = <<>>]
    /\ pc' = [pc EXCEPT ![w] = "release"]
    /\ UNCHANGED << supVars, envVars, written, restartHeld, loop, wqueue, wlock,
                    messages, item, acq, idx >>

\* lines 170-171: both lists are private to the worker's thread, so the state
\* between the two assignments is seen by nobody
Clear(w) ==
    /\ pc[w] = "clear"
    /\ data' = [data EXCEPT ![w] = <<>>]
    /\ messages' = [messages EXCEPT ![w] = <<>>]
    /\ flushSent' = [flushSent EXCEPT ![w] = <<>>]
    /\ pc' = [pc EXCEPT ![w] = "release"]
    /\ UNCHANGED << supVars, envVars, written, restartHeld, loop, wqueue, wlock,
                    item, acq, idx >>

\* line 173: self._process(data, **kwargs) returns
Process(w) ==
    /\ pc[w] = "process"
    /\ data' = [data EXCEPT ![w] = @ \o NewData(StagedPairs(item[w]))]
    /\ messages' = [messages EXCEPT ![w] = @ \o NewMessages(StagedPairs(item[w]))]
    /\ pc' = [pc EXCEPT ![w] = "release"]
    /\ UNCHANGED << supVars, envVars, histVars, loop, wqueue, wlock, item, acq,
                    idx >>

\* line 173: self._process raises after k pairs were staged (save_datasets of
\* the next pair, or building its message, failed)
ProcessFail(w) ==
    /\ pc[w] = "process"
    /\ \E k \in 0..Len(StagedPairs(item[w])) :
         LET pairs == SubSeq(StagedPairs(item[w]), 1, k)
         IN  /\ k < Len(StagedPairs(item[w])) \/ k = 0
             /\ data' = [data EXCEPT ![w] = @ \o NewData(pairs)]
             /\ messages' = [messages EXCEPT ![w] = @ \o NewMessages(pairs)]
    /\ pc' = [pc EXCEPT ![w] = "crashed"]
    /\ item' = [item EXCEPT ![w] = NoItem]
    /\ acq' = [acq EXCEPT ![w] = None]
    /\ UNCHANGED << supVars, envVars, histVars, loop, wqueue, wlock, idx >>

\* lines 177-182: self.prev_lock is read again
Release(w) ==
    /\ pc[w] = "release"
    /\ IF wlock[w] # None
       THEN release_locks(wlock[w])
       ELSE UNCHANGED << locked, held >>
    /\ pc' = [pc EXCEPT ![w] = "loop"]
    /\ UNCHANGED << supVars, histVars, queue, unfinished, prevIn, nput, loop,
                    wqueue, wlock, data, messages, item, acq, idx >>

\* -------------------------------------------------- DataWriterContainer
\* lines 39-51 with DataWriter.__init__ (lines 107-125): a new DataWriter on
\* the container's queue and lock, started in a new thread
_init_writer ==
    LET w == created + 1
    IN  /\ created' = w
        /\ writer' = w
        /\ thread' = w
        /\ pc' = [pc EXCEPT ![w] = "start"]
        /\ loop' = [loop EXCEPT ![w] = FALSE]
        /\ wqueue' = [wqueue EXCEPT ![w] = c_input_queue]
        /\ wlock' = [wlock EXCEPT ![w] = c_prev_lock]
        /\ data' = [data EXCEPT ![w] = <<>>]
        /\ messages' = [messages EXCEPT ![w] = <<>>]

\* lines 58-62
SetInputQueue(q) ==
    /\ supPc = "idle"
    /\ c_input_queue' = q
    /\ wqueue' = [wqueue EXCEPT ![writer] = q]
    /\ UNCHANGED << writer, thread, created, c_prev_lock, use_lock, topic, supPc,
                    raised, envVars, histVars, pc, loop, wlock, data, messages,
                    item, acq, idx >>

\* lines 69-74: lock is a lock object, or None to unwire the stage
SetPrevLock(l) ==
    /\ supPc = "idle"
    /\ IF use_lock
       THEN /\ c_prev_lock' = l
            /\ wlock' = [wlock EXCEPT ![writer] = l]
       ELSE UNCHANGED << c_prev_lock, wlock >>
    /\ UNCHANGED << writer, thread, created, c_input_queue, use_lock, topic,
                    supPc, raised, envVars, histVars, pc, loop, wqueue, data,
                    messages, item, acq, idx >>

\* lines 87-91 up to the join: DataWriter.stop (line 258), then thread.join()
\* on self.thread, which is None after an earlier stop()
StopBegin ==
    /\ supPc = "idle"
    /\ loop' = [loop EXCEPT ![writer] = FALSE]
    /\ IF thread = NoThread
       THEN /\ raised' = TRUE
            /\ supPc' = supPc
       ELSE /\ raised' = raised
            /\ supPc' = "stop_join"
    /\ UNCHANGED << writer, thread, created, c_input_queue, c_prev_lock,
                    use_lock, topic, envVars, histVars, pc, wqueue, wlock, data,
                    messages, item, acq, idx >>

\* lines 91-93: join returns once the thread has terminated
StopJoin ==
    /\ supPc = "stop_join"
    /\ pc[thread] \in Terminated
    /\ thread' = NoThread
    /\ supPc' = "idle"
    /\ UNCHANGED << writer, created, c_input_queue, c_prev_lock, use_lock, topic,
                    raised, envVars, histVars, pc, loop, wqueue, wlock, data,
                    messages, item, acq, idx >>

\* Thread.is_alive() of the thread of worker w: true from start() until run()
\* has returned or raised
thread_is_alive(w) == pc[w] \notin Terminated \cup {"unborn"}

\* lines 95-97: the value is_alive() returns when self.thread is a thread
is_alive == thread_is_alive(thread)

\* lines 95-97: a call of is_alive(); self.thread.is_alive() raises
\* AttributeError when self.thread is None
IsAlive ==
    /\ supPc = "idle"
    /\ raised' = (raised \/ thread = NoThread)
    /\ UNCHANGED << writer, thread, created, c_input_queue, c_prev_lock,
                    use_lock, topic, supPc, envVars, histVars, pc, loop, wqueue,
                    wlock, data, messages, item, acq, idx >>

\* lines 82-85: restart() reads writer.loop; when it is set it calls stop()
\* and waits in the join, otherwise it goes straight to _init_writer
RestartBegin ==
    /\ supPc = "idle"
    /\ created < Cardinality(Workers)
    /\ restartHeld' = restartHeld \cup Range(messages[writer])
    /\ IF loop[writer]
       THEN /\ loop' = [loop EXCEPT ![writer] = FALSE]
            /\ IF thread = NoThread
               THEN /\ raised' = TRUE
                    /\ supPc' = supPc
               ELSE /\ raised' = raised
                    /\ supPc' = "restart_join"
            /\ UNCHANGED << writer, thread, created, pc, wqueue, wlock, data,
                            messages >>
       ELSE /\ _init_writer
            /\ UNCHANGED << supPc, raised >>
    /\ UNCHANGED << c_input_queue, c_prev_lock, use_lock, topic, envVars,
                    written, flushSent, item, acq, idx >>

\* lines 91-93 inside restart(), then line 85
RestartJoin ==
    /\ supPc = "restart_join"
    /\ pc[thread] \in Terminated
    /\ _init_writer
    /\ supPc' = "idle"
    /\ UNCHANGED << c_input_queue, c_prev_lock, use_lock, topic, raised, envVars,
                    histVars, item, acq, idx >>

\* ------------------------------------------------------- previous stage
\* the previous stage puts a DataItem or the EndOfBatch sentinel (None)
PutItem(q, it) ==
    /\ nput < MaxPuts
    /\ nput' = nput + 1
    /\ queue' = [queue EXCEPT ![q] = Append(@, [it EXCEPT !.id = nput + 1, !.q = q])]
    /\ unfinished' = [unfinished EXCEPT ![q] = @ + 1]
    /\ UNCHANGED << supVars, histVars, locked, held, prevIn, pc, loop, wqueue,
                    wlock, data, messages, item, acq, idx >>

\* the previous stage enters its critical section on the shared lock
PrevAcquire(l) ==
    /\ l \notin prevIn
    /\ ~locked[l]
    /\ locked' = [locked EXCEPT ![l] = TRUE]
    /\ prevIn' = prevIn \cup {l}
    /\ UNCHANGED << supVars, histVars, queue, unfinished, held, nput, pc, loop,
                    wqueue, wlock, data, messages, item, acq, idx >>

\* the previous stage leaves its critical section
PrevRelease(l) ==
    /\ l \in prevIn
    /\ release_locks(l)
    /\ prevIn' = prevIn \ {l}
    /\ UNCHANGED << supVars, histVars, queue, unfinished, nput, pc, loop, wqueue,
                    wlock, data, messages, item, acq, idx >>

\* ------------------------------------------------------- specification
PutItems ==
    { [id |-> 0, eob |-> FALSE, products |-> d.products, scene |-> d.scene,
       q |-> None] : d \in DataItems } \cup {NoItem}

\* lines 23-37 and 39-51: the container after construction
Init ==
    /\ writer = 1
    /\ thread = 1
    /\ created = 1
    /\ c_input_queue = None
    /\ c_prev_lock = None
    /\ use_lock \in BOOLEAN
    /\ topic \in {None, "topic"}
    /\ supPc = "idle"
    /\ raised = FALSE
    /\ pc = [w \in Workers |-> IF w = 1 THEN "start" ELSE "unborn"]
    /\ loop = [w \in Workers |-> FALSE]
    /\ wqueue = [w \in Workers |-> None]
    /\ wlock = [w \in Workers |-> None]
    /\ data = [w \in Workers |-> <<>>]
    /\ messages = [w \in Workers |-> <<>>]
    /\ item = [w \in Workers |-> NoItem]
    /\ acq = [w \in Workers |-> None]
    /\ idx = [w \in Workers |-> 1]
    /\ queue = [q \in Queues |-> <<>>]
    /\ unfinished = [q \in Queues |-> 0]
    /\ locked = [l \in Locks |-> FALSE]
    /\ held = [w \in Workers |-> {}]
    /\ prevIn = {}
    /\ nput = 0
    /\ written = {}
    /\ flushSent = [w \in Workers |-> <<>>]
    /\ restartHeld = {}

WorkerStep(w) ==
    \/ RunBegin(w)
    \/ LoopCheck(w)
    \/ Sleep(w)
    \/ GetItem(w)
    \/ GetTimeout(w)
    \/ AcquireLock(w)
    \/ TaskDone(w)
    \/ ComputeOk(w)
    \/ ComputeFail(w)
    \/ Send(w)
    \/ Clear(w)
    \/ Process(w)
    \/ ProcessFail(w)
    \/ Release(w)

Next ==
    \/ \E w \in Workers : WorkerStep(w)
    \/ \E q \in Wired : SetInputQueue(q)
    \/ \E l \in Locks \cup {None} : SetPrevLock(l)
    \/ StopBegin
    \/ StopJoin
    \/ IsAlive
    \/ RestartBegin
    \/ RestartJoin
    \/ \E q \in Wired, it \in PutItems : PutItem(q, it)
    \/ \E l \in Locks : PrevAcquire(l)
    \/ \E l \in Locks : PrevRelease(l)

Spec == Init /\ [][Next]_vars

\* One container that is started and stopped but not restarted, with every
\* thread scheduled fairly: the worker thread keeps running, a join returns
\* once its thread has ended, and the previous stage leaves its critical
\* section.
LiveNext ==
    \/ \E w \in Workers : WorkerStep(w)
    \/ \E q \in Wired : SetInputQueue(q)
    \/ \E l \in Locks \cup {None} : SetPrevLock(l)
    \/ StopBegin
    \/ StopJoin
    \/ \E q \in Wired, it \in PutItems : PutItem(q, it)
    \/ \E l \in Locks : PrevAcquire(l)
    \/ \E l \in Locks : PrevRelease(l)

LiveSpec ==
    /\ Init
    /\ [][LiveNext]_vars
    /\ \A w \in Workers : WF_vars(WorkerStep(w))
    /\ WF_vars(StopJoin)
    /\ \A l \in Locks : WF_vars(PrevRelease(l))

\* One container whose input_queue is rebound between the two queue objects
\* while the previous stage puts items on either; no stop and no restart.
RebindNext ==
    \/ \E w \in Workers : WorkerStep(w)
    \/ \E q \in Queues : SetInputQueue(q)
    \/ \E l \in Locks \cup {None} : SetPrevLock(l)
    \/ \E q \in Queues, it \in PutItems : PutItem(q, it)
    \/ \E l \in Locks : PrevAcquire(l)
    \/ \E l \in Locks : PrevRelease(l)

RebindSpec == Init /\ [][RebindNext]_vars

\* The steps of run() in which nothing raises.
FlowWorkerStep(w) ==
    \/ RunBegin(w)
    \/ LoopCheck(w)
    \/ Sleep(w)
    \/ GetItem(w)
    \/ GetTimeout(w)
    \/ AcquireLock(w)
    \/ TaskDone(w)
    \/ ComputeOk(w)
    \/ Send(w)
    \/ Clear(w)
    \/ Process(w)
    \/ Release(w)

\* One container that is never stopped or restarted and whose writes never
\* fail, with every thread scheduled fairly: the worker thread keeps running,
\* a worker blocked in lock.acquire gets the lock if it is free again and
\* again, and the previous stage leaves its critical section.
FlowNext ==
    \/ \E w \in Workers : FlowWorkerStep(w)
    \/ \E q \in Wired : SetInputQueue(q)
    \/ \E l \in Locks \cup {None} : SetPrevLock(l)
    \/ \E q \in Wired, it \in PutItems : PutItem(q, it)
    \/ \E l \in Locks : PrevAcquire(l)
    \/ \E l \in Locks : PrevRelease(l)

FlowSpec ==
    /\ Init
    /\ [][FlowNext]_vars
    /\ \A w \in Workers : WF_vars(FlowWorkerStep(w))
    /\ \A w \in Workers : SF_vars(AcquireLock(w))
    /\ \A l \in Locks : WF_vars(PrevRelease(l))

\* ---------------------------------------------------------------- claims

\* C1: every notification a worker has sent in its current flush belongs to a
\* deferred write whose compute_writer_results call has already returned.
C1_NoSendBeforeCompute ==
    \A w \in Workers : \A k \in 1..Len(flushSent[w]) :
        DeferredWrite(flushSent[w][k]) \in written

\* C1 witness: a worker is in the send loop and has sent a notification.
C1_Witness ==
    \E w \in Workers : pc[w] = "send" /\ Len(flushSent[w]) >= 1

\* C2: a worker whose thread has terminated, normally or by an exception of
\* the flush or of _process, holds no lock.
C2_LockReleasedOnExit ==
    \A w \in Workers : pc[w] \in Terminated => held[w] = {}

\* C3: at every queue.get the worker holds no lock.
C3_NoLockAtGet ==
    \A w \in Workers : pc[w] = "get" => held[w] = {}

\* C4: no lock is held by a worker inside its per-item critical section while
\* the previous stage is inside its critical section on the same lock.
C4_MutualExclusion ==
    \A w \in Workers : held[w] \cap prevIn = {}

\* C5 as stated: at the end of a flush the number of notifications sent
\* equals the number of deferred writes staged for the batch.
C5_SentEqualsStaged ==
    \A w \in Workers : pc[w] = "clear" => Len(flushSent[w]) = Len(data[w])

\* C5 amended: at the end of a flush the number of notifications sent equals
\* the number of deferred writes staged in the worker's accumulator when a
\* topic is configured, and is zero when none is.
C5_SentEqualsStagedWithTopic ==
    \A w \in Workers : pc[w] = "clear" =>
        Len(flushSent[w]) = (IF topic # None THEN Len(data[w]) ELSE 0)

\* C5 witness: a flush with a topic configured has sent the notifications of
\* a batch whose DataItem listed a product absent from the scene.
C5_Witness ==
    \E w \in Workers :
        /\ pc[w] = "clear"
        /\ topic # None
        /\ Len(flushSent[w]) >= 1
        /\ \E k \in 1..Len(data[w]) : data[w][k].prod = "C"

\* The positions of run() inside the while loop of line 147.
InLoop ==
    {"loop", "sleep", "get", "acquire", "taskdone", "compute", "send", "clear",
     "process", "release"}

\* C6: when no restart() or stop() is in progress, at most one worker is
\* running its loop on any one queue.
C6_OneWorkerAfterRestart ==
    supPc = "idle" =>
        \A q \in Queues :
            Cardinality({ w \in Workers : pc[w] \in InLoop /\ wqueue[w] = q }) <= 1

\* C7: every stop() that waits in the join eventually returns.
C7_StopReturns ==
    (supPc = "stop_join") ~> (supPc = "idle")

\* C8: a worker blocked on an empty queue after stop was requested times out
\* without touching the accumulator or a lock, its loop flag stays cleared,
\* and its next loop check ends the thread.
C8_StopWhileBlocked ==
    [][\A w \in Workers :
        /\ (pc[w] = "get" /\ ~loop[w] /\ queue[wqueue[w]] = <<>> /\ pc'[w] # pc[w])
              => /\ pc'[w] = "loop"
                 /\ data'[w] = data[w]
                 /\ messages'[w] = messages[w]
                 /\ held'[w] = held[w]
        /\ (pc[w] \in {"get", "loop"} /\ ~loop[w]) => ~loop'[w]
        /\ (pc[w] = "loop" /\ ~loop[w] /\ pc'[w] # pc[w]) => pc'[w] = "done"]_vars

\* C8 witness: stop() is waiting in the join while the worker is blocked on
\* an empty queue with its loop flag cleared.
C8_Witness ==
    \E w \in Workers :
        /\ supPc = "stop_join"
        /\ thread = w
        /\ pc[w] = "get"
        /\ ~loop[w]
        /\ queue[wqueue[w]] = <<>>

\* C9: when no thread has failed and the writer a restart created completes
\* an EndOfBatch iteration, the deferred write of every message the replaced
\* writer held when restart() was called has been executed.
C9_RestartKeepsBuffer ==
    (/\ created > 1
     /\ \A w \in Workers : pc[w] # "crashed"
     /\ pc[writer] = "release"
     /\ item[writer].eob)
        => \A m \in restartHeld : DeferredWrite(m) \in written

\* Position of a message in recording order: DataItem, then product, then
\* filename.
Before(m, n) ==
    \/ m.id < n.id
    \/ m.id = n.id /\ m.pi < n.pi
    \/ m.id = n.id /\ m.pi = n.pi /\ m.fi < n.fi

\* C10: an item a worker pops is older than every item left on that queue
\* and newer than the item the worker popped before, and the notifications
\* of a flush are sent in recording order.
C10_FifoAndSendOrder ==
    /\ [][\A w \in Workers :
            (pc[w] = "get" /\ pc'[w] \in {"acquire", "taskdone"}) =>
                /\ item'[w].id > item[w].id
                /\ \A k \in 1..Len(queue'[wqueue[w]]) :
                       queue'[wqueue[w]][k].id > item'[w].id]_vars
    /\ [](\A w \in Workers : \A i, j \in 1..Len(flushSent[w]) :
            i < j => Before(flushSent[w][i], flushSent[w][j]))

\* C10 witness: a flush has sent the notifications of two DataItems, each
\* with two products.
C10_Witness ==
    \E w \in Workers :
        /\ pc[w] = "clear"
        /\ \E i, j \in 1..Len(flushSent[w]) :
               flushSent[w][i].id < flushSent[w][j].id
        /\ \E i, j \in 1..Len(flushSent[w]) :
               /\ flushSent[w][i].id = flushSent[w][j].id
               /\ flushSent[w][i].pi < flushSent[w][j].pi

\* C11: a worker that is about to run the release of lines 177-182 with a
\* lock bound releases a lock it acquired in this iteration and still holds.
C11_ReleasesOnlyAcquired ==
    \A w \in Workers :
        (pc[w] = "release" /\ wlock[w] # None) => wlock[w] \in held[w]

\* C12: the step that marks a popped item done calls task_done on the queue
\* object the item was popped from, does not fail, and lowers that queue's
\* count of unfinished tasks by exactly one.
C12_DoneOnPoppedQueue ==
    [][\A w \in Workers :
        (pc[w] = "taskdone" /\ pc'[w] # "taskdone") =>
            /\ wqueue[w] = item[w].q
            /\ pc'[w] # "crashed"
            /\ unfinished'[item[w].q] = unfinished[item[w].q] - 1]_vars

\* The (product, filename) pairs of a DataItem: every filename of every
\* listed product that is present in the scene.
PresentPairs(it) ==
    UNION { { [id |-> it.id, prod |-> p, fname |-> f] :
                f \in Range(create_fnames(p)) } :
            p \in Range(it.products) \cap it.scene }

\* C13: the processing of one DataItem appends to self.data exactly one
\* deferred write per (product, filename) pair of the listed products present
\* in the scene and nothing else, appends to self.messages exactly one
\* message per such pair when a topic is configured and nothing otherwise,
\* executes no write and sends no message.
C13_ProcessStagesPairs ==
    [][\A w \in Workers :
        (pc[w] = "process" /\ pc'[w] = "release") =>
            LET n == Len(data[w])
                m == Len(messages[w])
                newd == SubSeq(data'[w], n + 1, Len(data'[w]))
                newm == SubSeq(messages'[w], m + 1, Len(messages'[w]))
                pairs == PresentPairs(item[w])
            IN  /\ SubSeq(data'[w], 1, n) = data[w]
                /\ Range(newd) = pairs
                /\ Len(newd) = Cardinality(pairs)
                /\ SubSeq(messages'[w], 1, m) = messages[w]
                /\ IF topic # None
                   THEN /\ { DeferredWrite(x) : x \in Range(newm) } = pairs
                        /\ Len(newm) = Cardinality(pairs)
                   ELSE newm = <<>>
                /\ written' = written
                /\ flushSent' = flushSent]_vars

\* C13 witness: a DataItem listing A, B and C with B absent from the scene
\* has been processed with a topic configured: three writes and three
\* messages are staged, none for B.
C13_Witness ==
    \E w \in Workers :
        /\ pc[w] = "release"
        /\ ~item[w].eob
        /\ topic # None
        /\ Len(data[w]) = 3
        /\ Len(messages[w]) = 3
        /\ \A k \in 1..3 : data[w][k].prod # "B"

\* The thread of worker w was ended by an exception of the flush of line 164.
FlushFailed(w) ==
    pc[w] = "crashed" /\ item[w].eob /\ item[w].id > 0 /\ data[w] # <<>>

\* C14: a compute_writer_results that does not execute the batch ends the
\* worker's thread with nothing of the batch sent; the ended thread stays
\* ended, pops nothing and sends nothing; and a call of is_alive() on the
\* container of that worker returns False.
C14_WriteFailureEndsWorker ==
    /\ [][\A w \in Workers :
            /\ (/\ pc[w] = "compute"
                /\ pc'[w] # "compute"
                /\ ~(Range(data[w]) \subseteq written'))
                  => (pc'[w] = "crashed" /\ flushSent'[w] = <<>>)
            /\ pc[w] = "crashed"
                  => (pc'[w] = "crashed" /\ flushSent'[w] = flushSent[w])]_vars
    /\ [](\A w \in Workers :
            (FlushFailed(w) /\ writer = w /\ supPc = "idle")
                => (thread # NoThread /\ ~is_alive))

IsPrefix(a, b) == Len(a) <= Len(b) /\ SubSeq(b, 1, Len(a)) = a

\* C15: self.data and self.messages are empty until run() begins, are both
\* empty after every completed EndOfBatch iteration, shrink only in the clear
\* of an EndOfBatch iteration, which empties both in the same step, and
\* otherwise change only by appends made while a DataItem is processed.
C15_AccumulatorLifecycle ==
    /\ [](\A w \in Workers :
            /\ pc[w] \in {"unborn", "start"}
                  => (data[w] = <<>> /\ messages[w] = <<>>)
            /\ (pc[w] = "release" /\ item[w].eob)
                  => (data[w] = <<>> /\ messages[w] = <<>>))
    /\ [][\A w \in Workers :
            IF pc[w] = "clear" /\ pc'[w] # "clear"
            THEN item[w].eob /\ data'[w] = <<>> /\ messages'[w] = <<>>
            ELSE /\ IsPrefix(data[w], data'[w])
                 /\ IsPrefix(messages[w], messages'[w])
                 /\ (data'[w] # data[w] \/ messages'[w] # messages[w])
                       => (pc[w] = "process" /\ ~item[w].eob)]_vars

\* C15 witness: an EndOfBatch iteration that flushed a staged batch with its
\* messages has completed its clear.
C15_Witness ==
    \E w \in Workers :
        /\ pc[w] = "release"
        /\ item[w].eob
        /\ topic # None
        /\ \E d \in written : d.id < item[w].id
        /\ data[w] = <<>>
        /\ messages[w] = <<>>

\* C16: whenever a worker with a lock bound is staging, executing writes,
\* sending or clearing, it holds that lock.
C16_ProcessingUnderLock ==
    \A w \in Workers :
        (pc[w] \in {"compute", "send", "clear", "process"} /\ wlock[w] # None)
            => wlock[w] \in held[w]

\* C17: a worker whose loop flag has been cleared leaves run() only from the
\* test of line 147; until then every step of its iteration that does not
\* raise goes on as if no stop had been requested: the flush executes every
\* staged write, sends every message, clears both lists, a DataItem is staged
\* in full, and after the release of lines 177-182 the worker holds no lock.
C17_StopLetsIterationFinish ==
    [][\A w \in Workers :
        (~loop[w] /\ pc'[w] # pc[w] /\ pc'[w] # "crashed") =>
            /\ pc'[w] = "done" => pc[w] = "loop"
            /\ pc[w] = "taskdone" =>
                  pc'[w] = (IF ~item[w].eob THEN "process"
                            ELSE IF data[w] # <<>> THEN "compute" ELSE "clear")
            /\ pc[w] = "compute" =>
                  /\ Range(data[w]) \subseteq written'
                  /\ pc'[w] = (IF messages[w] # <<>> THEN "send" ELSE "clear")
            /\ pc[w] = "send" =>
                  (pc'[w] = "clear" /\ flushSent'[w] = messages[w])
            /\ pc[w] = "clear" =>
                  (pc'[w] = "release" /\ data'[w] = <<>> /\ messages'[w] = <<>>)
            /\ pc[w] = "process" =>
                  /\ pc'[w] = "release"
                  /\ Len(data'[w]) =
                        Len(data[w]) + Cardinality(PresentPairs(item[w]))
            /\ pc[w] = "release" =>
                  (pc'[w] = "loop" /\ held'[w] = {})]_vars

ItemWrites(n) ==
    UNION { PresentPairs([id |-> n, products |-> d.products, scene |-> d.scene]) :
            d \in DataItems }

\* C19: every DataItem that waits on the queue bound to the running worker
\* with an EndOfBatch behind it eventually has all its deferred writes
\* executed and the accumulator that held them cleared.
C19_BatchEventuallyFlushed ==
    \A n \in 1..MaxPuts :
        (\E q \in Queues :
            /\ wqueue[writer] = q
            /\ \E i, j \in 1..Len(queue[q]) :
                  /\ i < j
                  /\ queue[q][i].id = n
                  /\ ~queue[q][i].eob
                  /\ queue[q][j].eob)
        ~> (/\ ItemWrites(n) \subseteq written
            /\ \A w \in Workers : Range(data[w]) \cap ItemWrites(n) = {})

\* C20: no call of is_alive() or stop() on the container fails, whatever
\* calls of stop() and restart() came before.
C20_IsAliveAndStopNeverFail ==
    ~raised

====
